---- MODULE Spec2Model ----
(***************************************************************************)
(* Image-to-geometry and palette extraction of src/types.ts:               *)
(* generateSphere, analyzeImageSegmentation, processImageToPoints, the     *)
(* colour utilities (rgbToHex, hexToRgb, rgbToHsl, hslToRgb) and           *)
(* extractColorsFromImage.                                                 *)
(*                                                                         *)
(* Numbers.  A JavaScript number that is not known to be an integer is     *)
(* held in fixed point: the integer v stands for v / Unit.  Pixel          *)
(* channels, counts, coordinates of unjittered pixels and array lengths    *)
(* are plain integers.  NaN is a value of its own.                         *)
(*                                                                         *)
(* Canvases.  The code draws into a 600 pixel wide canvas                  *)
(* (processImageToPoints) and a 64 x 64 canvas (extractColorsFromImage).   *)
(* The model keeps the code's stride, thresholds and arithmetic and        *)
(* scales the two canvases down to Width and Size pixels.                  *)
(***************************************************************************)
EXTENDS Integers, Sequences, FiniteSets, TLC

\* ------------------------------------------------------------ bounds
\* Canvas width of processImageToPoints (600 in the code), scaled down.
Width == 8
\* Canvas side of extractColorsFromImage (64 in the code), scaled down.
Size == 8
\* Largest point count requested from processImageToPoints.
MaxCount == 5
\* Longest string handed to hexToRgb.
MaxHexLen == 7

\* ------------------------------------------------------------ numbers
\* One, in fixed point (a multiple of 6 and of 1000: 1/3, 1/6, 0.05 are exact).
Unit == 6 * 1000

\* IEEE NaN: the sum of undefined typed-array reads (getBrightness).
NaN == 0 - 1000000000

IsNaN(v) == v = NaN

\* The lesser of two numbers where the greater is asked for (what Max is
\* compared with).
Lesser(a, b) == IF a < b THEN a ELSE b

Min(a, b) == IF a < b THEN a ELSE b
Max(a, b) == IF a > b THEN a ELSE b
Abs(a) == IF a < 0 THEN 0 - a ELSE a

\* a * b and a / b of two fixed-point numbers.
Mul(a, b) == (a * b) \div Unit
Div(a, b) == (a * Unit) \div b

\* Math.sqrt of a non-negative integer, rounded down.
RECURSIVE SqrtSearch(_, _, _)
SqrtSearch(n, lo, hi) ==
  IF lo >= hi THEN lo
  ELSE LET mid == (lo + hi + 1) \div 2
       IN IF mid * mid <= n THEN SqrtSearch(n, mid, hi)
          ELSE SqrtSearch(n, lo, mid - 1)
ISqrt(n) == SqrtSearch(n, 0, 46340)

\* Math.round of the fixed-point number v (ties go up), as an integer.
Round(v) == (2 * v + Unit) \div (2 * Unit)

\* Math.floor of the fixed-point number v, as an integer.
Floor(v) == v \div Unit

\* ------------------------------------------------------------ pixels
\* One RGBA pixel of a canvas buffer (four bytes of the Uint8ClampedArray).
Px(r, g, b, a) == [r |-> r, g |-> g, b |-> b, a |-> a]

\* pixels[4*i .. 4*i+3] is inside the buffer (else each read is undefined).
InBuffer(pixels, i) == i >= 0 /\ i < Len(pixels)

\* getQuantizedColorKey: each channel shifted right by 4.
getQuantizedColorKey(r, g, b) == <<r \div 16, g \div 16, b \div 16>>

\* The key of the pixel at index i; undefined >> 4 is 0.
KeyAt(pixels, i) ==
  IF InBuffer(pixels, i)
  THEN getQuantizedColorKey(pixels[i + 1].r, pixels[i + 1].g, pixels[i + 1].b)
  ELSE <<0, 0, 0>>

\* ------------------------------------------------------------ segmentation
\* The canvas height as the code holds it: the rational hN / hD, which
\* need not be an integer (height = img.height / img.width * width).

\* isOuterZone: nx*nx + ny*ny > 0.3 with nx = (x/width - 0.5)*2 and
\* ny = (y/height - 0.5)*2, cleared of denominators.
isOuterZone(x, y, width, hN, hD) ==
  10 * ((2 * x - width) * (2 * x - width) * hN * hN
        + (2 * y * hD - hN) * (2 * y * hD - hN) * width * width)
    > 3 * width * width * hN * hN

\* The (x, y) the histogram loop visits: stride 4, x < width, y < height.
SampleGrid(width, hN, hD) ==
  {xy \in (0 .. width - 1) \X (0 .. hN \div hD) :
     /\ xy[1] % 4 = 0
     /\ xy[2] % 4 = 0
     /\ xy[2] * hD < hN}

\* The visited (x, y) the loop does not skip: `pixels[i + 3] < 50` is false
\* for an alpha >= 50 and for an undefined read past the buffer's end.
Counted(width, hN, hD, pixels) ==
  {xy \in SampleGrid(width, hN, hD) :
     LET i == xy[2] * width + xy[1]
     IN ~(InBuffer(pixels, i) /\ pixels[i + 1].a < 50)}

\* colorStats: per key, the number of counted samples and of those in the
\* outer zone.
colorStats(width, hN, hD, pixels) ==
  LET cnt == Counted(width, hN, hD, pixels)
      keys == {KeyAt(pixels, xy[2] * width + xy[1]) : xy \in cnt}
      of(k) == {xy \in cnt : KeyAt(pixels, xy[2] * width + xy[1]) = k}
  IN [k \in keys |->
        [total |-> Cardinality(of(k)),
         outer |-> Cardinality({xy \in of(k) :
                       isOuterZone(xy[1], xy[2], width, hN, hD)})]]

\* stats.outer / stats.total > 0.4
RatioIsBackground(stats) == 10 * stats.outer > 4 * stats.total

\* analyzeImageSegmentation: the set bgColors.
analyzeImageSegmentation(width, hN, hD, pixels) ==
  LET cs == colorStats(width, hN, hD, pixels)
  IN {k \in DOMAIN cs : RatioIsBackground(cs[k])}

\* ------------------------------------------------------------ generateSphere
\* generateSphere(count, radius): count*3 positions and no other array.
\* Entry 3*i + axis is radius times a trigonometric term of i and count
\* (cos(theta)sin(phi), sin(theta)sin(phi), cos(phi)); the term is kept
\* symbolic as <<axis, i, count, radius>>.
generateSphere(count, radius) ==
  [positions |-> [k \in 1 .. count * 3 |->
                    <<(k - 1) % 3, (k - 1) \div 3, count, radius>>]]

\* ------------------------------------------------------------ Math.random
\* The successive outcomes of Math.random() inside one handler run: the
\* k-th call (k = 1, 2, ...) returns stream[k], the stream repeating.
Rand(stream, k) == stream[((k - 1) % Len(stream)) + 1]

\* ------------------------------------------------------------ processImageToPoints
\* getBrightness(x, y) times 3 (the sum r + g + b): 0 outside the
\* width x height rectangle, NaN where the rectangle reaches past the buffer.
getBrightness(x, y, width, hN, hD, pixels) ==
  IF x < 0 \/ x >= width \/ y < 0 \/ y * hD >= hN THEN 0
  ELSE IF InBuffer(pixels, y * width + x)
       THEN pixels[y * width + x + 1].r + pixels[y * width + x + 1].g
            + pixels[y * width + x + 1].b
       ELSE NaN

\* a - b of two numbers either of which may be NaN.
SubN(a, b) == IF IsNaN(a) \/ IsNaN(b) THEN NaN ELSE a - b

\* Math.min(1.0, Math.sqrt(gx*gx + gy*gy) / 100), from 3*gx and 3*gy.
EdgeStrength(gx3, gy3) ==
  IF IsNaN(gx3) \/ IsNaN(gy3) THEN NaN
  ELSE Min(Unit, ISqrt(400 * (gx3 * gx3 + gy3 * gy3)))

\* A flag that looks at the colour only (what IsBg is compared with).
IsBgByColour(matchesBgColor, edgeStrength) == matchesBgColor

\* matchesBgColor && edgeStrength < 0.5 (a comparison with NaN is false).
IsBg(matchesBgColor, edgeStrength) ==
  matchesBgColor /\ ~IsNaN(edgeStrength) /\ 2 * edgeStrength < Unit

\* importance: Math.random()*100, plus edgeStrength*1000 when
\* edgeStrength > 0.2, plus 500 for a foreground pixel.
Importance(rnd, edgeStrength, isBg) ==
  100 * rnd
  + (IF ~IsNaN(edgeStrength) /\ 5 * edgeStrength > Unit
     THEN 1000 * edgeStrength ELSE 0)
  + (IF ~isBg THEN 500 * Unit ELSE 0)

\* The candidate pushed for the pixel at index i, the k-th with alpha > 20.
Candidate(i, k, width, hN, hD, pixels, bgColors, stream) ==
  LET x == i % width
      y == i \div width
      p == pixels[i + 1]
      gx == SubN(getBrightness(x + 1, y, width, hN, hD, pixels),
                 getBrightness(x - 1, y, width, hN, hD, pixels))
      gy == SubN(getBrightness(x, y + 1, width, hN, hD, pixels),
                 getBrightness(x, y - 1, width, hN, hD, pixels))
      edgeStrength == EdgeStrength(gx, gy)
      isBg == IsBg(getQuantizedColorKey(p.r, p.g, p.b) \in bgColors,
                   edgeStrength)
  IN [x |-> x * Unit, y |-> y * Unit,
      brightness |-> (p.r + p.g + p.b) * (Unit \div 3),
      edgeStrength |-> edgeStrength,
      intensity |-> Importance(Rand(stream, k), edgeStrength, isBg),
      isBg |-> isBg, r |-> p.r, g |-> p.g, b |-> p.b]

\* The members of a set of pixel indices in scan order.
Ascending(S) ==
  [k \in 1 .. Cardinality(S) |->
     CHOOSE i \in S : Cardinality({j \in S : j < i}) = k - 1]

\* candidates, in the order they are pushed: the pixels with alpha > 20.
Candidates(width, hN, hD, pixels, bgColors, stream) ==
  LET idx == Ascending({i \in 0 .. Len(pixels) - 1 : pixels[i + 1].a > 20})
  IN [k \in 1 .. Len(idx) |->
        Candidate(idx[k], k, width, hN, hD, pixels, bgColors, stream)]

\* candidates.sort((a, b) => b.intensity - a.intensity): descending, stable.
RECURSIVE InsertDesc(_, _)
InsertDesc(sorted, c) ==
  IF sorted = <<>> THEN <<c>>
  ELSE IF Head(sorted).intensity >= c.intensity
       THEN <<Head(sorted)>> \o InsertDesc(Tail(sorted), c)
       ELSE <<c>> \o sorted

RECURSIVE SortDesc(_, _)
SortDesc(done, rest) ==
  IF rest = <<>> THEN done
  ELSE SortDesc(InsertDesc(done, Head(rest)), Tail(rest))

\* A fill that takes its source among all entries pushed so far, padded ones
\* included (what Fill is compared with).
RECURSIVE FillFromAny(_, _, _, _, _, _)
FillFromAny(selected, originalLength, i, count, stream, next) ==
  IF Len(selected) >= count THEN selected
  ELSE LET source == selected[(i % Len(selected)) + 1]
           moved == [source EXCEPT
                       !.x = source.x + (Rand(stream, next) - Unit \div 2),
                       !.y = source.y + (Rand(stream, next + 1) - Unit \div 2)]
       IN FillFromAny(Append(selected, moved), originalLength, i + 1, count,
                      stream, next + 2)

\* The fill loop: while selected.length < count, push a copy of
\* selected[i % originalLength] moved by Math.random() - 0.5 in x and in y.
\* next is the number of the next Math.random() call.
RECURSIVE Fill(_, _, _, _, _, _)
Fill(selected, originalLength, i, count, stream, next) ==
  IF Len(selected) >= count THEN selected
  ELSE LET source == selected[(i % originalLength) + 1]
           moved == [source EXCEPT
                       !.x = source.x + (Rand(stream, next) - Unit \div 2),
                       !.y = source.y + (Rand(stream, next + 1) - Unit \div 2)]
       IN Fill(Append(selected, moved), originalLength, i + 1, count,
               stream, next + 2)

\* selected: the first count candidates of the sorted list, padded.
Selected(sorted, count, stream) ==
  LET first == IF Len(sorted) > count THEN SubSeq(sorted, 1, count) ELSE sorted
  IN IF Len(first) < count /\ Len(sorted) > 0
     THEN Fill(first, Len(first), 0, count, stream, Len(sorted) + 1)
     ELSE first

\* minB and maxB after the scan (255 and 0 before it).
MinB(cands) ==
  LET RECURSIVE go(_, _)
      go(k, m) == IF k > Len(cands) THEN m
                  ELSE go(k + 1, Min(m, cands[k].brightness))
  IN go(1, 255 * Unit)
MaxB(cands) ==
  LET RECURSIVE go(_, _)
      go(k, m) == IF k > Len(cands) THEN m
                  ELSE go(k + 1, Max(m, cands[k].brightness))
  IN go(1, 0)

\* normBright = (p.brightness - minB) / (maxB - minB || 1)
NormBright(p, minB, maxB) ==
  IF maxB = minB THEN (p.brightness - minB)
  ELSE (((p.brightness - minB) \div (Unit \div 3)) * Unit)
         \div ((maxB - minB) \div (Unit \div 3))

\* The three positions written for the selected entry p.
PointXYZ(p, width, hN, hD, scale, minB, maxB) ==
  LET nx0 == (2 * p.x) \div width - Unit
      ny0 == Unit - (2 * p.y * hD) \div hN
      nx == (nx0 * width * hD) \div hN
      ny == ((ny0 * 240) \div Unit) * (Unit \div 240)
      normBright == NormBright(p, minB, maxB)
      z0 == Mul(Mul(normBright, (15 * Unit) \div 100), scale)
      z == IF p.isBg
           THEN 0 - Mul(Unit \div 2, scale) + Mul(normBright, Unit \div 10)
           ELSE z0 + Mul(Unit \div 10, scale)
  IN <<Mul(nx, scale) * 2,
       Mul(ny, scale) * 2,
       IF IsNaN(p.edgeStrength) THEN NaN
       ELSE z + Mul(Mul(p.edgeStrength, (5 * Unit) \div 100), scale)>>

\* The onload handler of processImageToPoints once it holds a 2D context
\* and the canvas buffer: what it computed, and whether it returned (it
\* resolves the promise as its last statement) or threw.  With no
\* candidate, selected[0] is undefined and reading p.x throws a TypeError.
processImageToPoints(img, count, scale, stream) ==
  LET width == Width
      hN == img.height * width
      hD == img.width
      pixels == img.pixels
      bgColors == analyzeImageSegmentation(width, hN, hD, pixels)
      candidates == Candidates(width, hN, hD, pixels, bgColors, stream)
      minB == MinB(candidates)
      maxB == MaxB(candidates)
      selected == Selected(SortDesc(<<>>, candidates), count, stream)
      xyz == [i \in 1 .. count |->
                PointXYZ(selected[i], width, hN, hD, scale, minB, maxB)]
  IN IF Len(selected) < count
     THEN [threw |-> TRUE, bgColors |-> bgColors, candidates |-> candidates,
           selected |-> selected]
     ELSE [threw |-> FALSE, bgColors |-> bgColors, candidates |-> candidates,
           selected |-> selected,
           value |->
             [positions |-> [k \in 1 .. count * 3 |->
                               xyz[((k - 1) \div 3) + 1][((k - 1) % 3) + 1]],
              brightness |-> [i \in 1 .. count |->
                               NormBright(selected[i], minB, maxB)],
              edgeStrength |-> [i \in 1 .. count |-> selected[i].edgeStrength],
              isBackground |-> [i \in 1 .. count |->
                               IF selected[i].isBg THEN Unit ELSE 0]]]

\* ------------------------------------------------------------ colour utilities
\* A string is the sequence of its characters.  An RGB or HSL record holds
\* fixed-point numbers.
Rgb(r, g, b) == [r |-> r, g |-> g, b |-> b]
Hsl(h, s, l) == [h |-> h, s |-> s, l |-> l]

\* The RGB record of three integers.
RgbOfInts(r, g, b) == Rgb(r * Unit, g * Unit, b * Unit)

HexDigitsLower ==
  <<"0", "1", "2", "3", "4", "5", "6", "7", "8", "9",
    "a", "b", "c", "d", "e", "f">>
HexDigitsUpper ==
  <<"0", "1", "2", "3", "4", "5", "6", "7", "8", "9",
    "A", "B", "C", "D", "E", "F">>

\* Number.prototype.toString(16) of an integer.
RECURSIVE HexOfNat(_)
HexOfNat(n) ==
  IF n < 16 THEN <<HexDigitsLower[n + 1]>>
  ELSE Append(HexOfNat(n \div 16), HexDigitsLower[(n % 16) + 1])
ToString16(n) == IF n < 0 THEN <<"-">> \o HexOfNat(0 - n) ELSE HexOfNat(n)

\* String.prototype.slice(1)
Slice1(str) == IF str = <<>> THEN <<>> ELSE Tail(str)

\* An encoding without the (1 << 24) ... slice(1) padding (what rgbToHex is
\* compared with).
rgbToHexUnpadded(c) ==
  <<"#">> \o ToString16(Round(c.r) * 65536 + Round(c.g) * 256 + Round(c.b))

\* rgbToHex: "#" + ((1 << 24) + (round(r) << 16) + (round(g) << 8)
\* + round(b)).toString(16).slice(1).  The shifted values stay far inside
\* 32 bits for every channel the callers produce.
rgbToHex(c) ==
  <<"#">> \o Slice1(ToString16(16777216 + Round(c.r) * 65536
                               + Round(c.g) * 256 + Round(c.b)))

\* [a-f\d] under the i flag.
IsHexDigit(ch) ==
  \E i \in 1 .. 16 : HexDigitsLower[i] = ch \/ HexDigitsUpper[i] = ch

\* parseInt of two hex digits, base 16.
HexDigitValue(ch) ==
  (CHOOSE i \in 1 .. 16 : HexDigitsLower[i] = ch \/ HexDigitsUpper[i] = ch) - 1
ParseHex2(a, b) == 16 * HexDigitValue(a) + HexDigitValue(b)

\* The same pattern without its $ anchor (what HexMatch is compared with).
HexMatchPrefix(hex) ==
  LET body == IF hex # <<>> /\ Head(hex) = "#" THEN Tail(hex) ELSE hex
  IN IF Len(body) >= 6 /\ \A i \in 1 .. 6 : IsHexDigit(body[i])
     THEN SubSeq(body, 1, 6) ELSE <<>>

\* /^#?([a-f\d]{2})([a-f\d]{2})([a-f\d]{2})$/i.exec(hex): the six matched
\* digits, or <<>> for no match.
HexMatch(hex) ==
  LET body == IF hex # <<>> /\ Head(hex) = "#" THEN Tail(hex) ELSE hex
  IN IF Len(body) = 6 /\ \A i \in 1 .. 6 : IsHexDigit(body[i])
     THEN body ELSE <<>>

\* hexToRgb: the three parsed channels, or black when the regex fails.
hexToRgb(hex) ==
  LET m == HexMatch(hex)
  IN IF m # <<>>
     THEN RgbOfInts(ParseHex2(m[1], m[2]), ParseHex2(m[3], m[4]),
                    ParseHex2(m[5], m[6]))
     ELSE RgbOfInts(0, 0, 0)

\* rgbToHsl
rgbToHsl(c) ==
  LET r == c.r \div 255
      g == c.g \div 255
      b == c.b \div 255
      max == Max(r, Max(g, b))
      min == Min(r, Min(g, b))
      l == (max + min) \div 2
      d == max - min
      s == IF 2 * l > Unit THEN Div(d, 2 * Unit - max - min)
           ELSE Div(d, max + min)
      h6 == IF max = r THEN Div(g - b, d) + (IF g < b THEN 6 * Unit ELSE 0)
            ELSE IF max = g THEN Div(b - r, d) + 2 * Unit
            ELSE Div(r - g, d) + 4 * Unit
  IN IF max = min THEN Hsl(0, 0, l) ELSE Hsl(h6 \div 6, s, l)

\* hue2rgb of hslToRgb
hue2rgb(p, q, t0) ==
  LET t1 == IF t0 < 0 THEN t0 + Unit ELSE t0
      t == IF t1 > Unit THEN t1 - Unit ELSE t1
  IN IF 6 * t < Unit THEN p + Mul(Mul(q - p, 6 * Unit), t)
     ELSE IF 2 * t < Unit THEN q
     ELSE IF 3 * t < 2 * Unit
          THEN p + Mul(Mul(q - p, (2 * Unit) \div 3 - t), 6 * Unit)
     ELSE p

\* hslToRgb: no clamping of its own.
hslToRgb(c) ==
  LET q == IF 2 * c.l < Unit THEN Mul(c.l, Unit + c.s)
           ELSE c.l + c.s - Mul(c.l, c.s)
      p == 2 * c.l - q
  IN IF c.s = 0 THEN Rgb(c.l * 255, c.l * 255, c.l * 255)
     ELSE Rgb(hue2rgb(p, q, c.h + Unit \div 3) * 255,
              hue2rgb(p, q, c.h) * 255,
              hue2rgb(p, q, c.h - Unit \div 3) * 255)

\* colorDistSq, an integer: the channels it is applied to are pixel bytes.
colorDistSq(c1, c2) ==
  LET dr == (c1.r - c2.r) \div Unit
      dg == (c1.g - c2.g) \div Unit
      db == (c1.b - c2.b) \div Unit
  IN dr * dr + dg * dg + db * db

\* ------------------------------------------------------------ extractColorsFromImage
\* The pools of step 2.  A foreground sample keeps its bucket key (the key
\* it has in bucketMap).
BucketKey(p) == <<p.r \div 10, p.g \div 10, p.b \div 10>>

\* The pixels the scan loop does not skip (alpha >= 128), split by
\* bgColors.has(key).
BgIndices(data, bgColors) ==
  {i \in 0 .. Len(data) - 1 :
     /\ data[i + 1].a >= 128
     /\ getQuantizedColorKey(data[i + 1].r, data[i + 1].g, data[i + 1].b)
          \in bgColors}
FgIndices(data, bgColors) ==
  {i \in 0 .. Len(data) - 1 :
     /\ data[i + 1].a >= 128
     /\ getQuantizedColorKey(data[i + 1].r, data[i + 1].g, data[i + 1].b)
          \notin bgColors}

\* bgSamples, in the order pushed.
bgSamples(data, bgColors) ==
  LET idx == Ascending(BgIndices(data, bgColors))
  IN [k \in 1 .. Len(idx) |->
        RgbOfInts(data[idx[k] + 1].r, data[idx[k] + 1].g, data[idx[k] + 1].b)]

\* fgSamples, in the order pushed: one sample per bucket, made by the first
\* pixel of the bucket and counting every pixel of it.
fgSamples(data, bgColors) ==
  LET fg == FgIndices(data, bgColors)
      firsts == {i \in fg : \A j \in fg :
                   BucketKey(data[j + 1]) = BucketKey(data[i + 1]) => i <= j}
      idx == Ascending(firsts)
  IN [k \in 1 .. Len(idx) |->
        LET p == data[idx[k] + 1]
        IN [color |-> RgbOfInts(p.r, p.g, p.b),
            count |-> Cardinality({j \in fg :
                        BucketKey(data[j + 1]) = BucketKey(p)}),
            hsl |-> rgbToHsl(RgbOfInts(p.r, p.g, p.b)),
            bucket |-> BucketKey(p)]]

\* fgSamples.sort((a, b) => b.count - a.count): descending, stable.
RECURSIVE InsertByCount(_, _)
InsertByCount(sorted, c) ==
  IF sorted = <<>> THEN <<c>>
  ELSE IF Head(sorted).count >= c.count
       THEN <<Head(sorted)>> \o InsertByCount(Tail(sorted), c)
       ELSE <<c>> \o sorted

RECURSIVE SortByCount(_, _)
SortByCount(done, rest) ==
  IF rest = <<>> THEN done
  ELSE SortByCount(InsertByCount(done, Head(rest)), Tail(rest))

\* The component-wise sum of samples[lo .. hi] (bgSamples.reduce).
RECURSIVE SumRgb(_, _, _)
SumRgb(samples, lo, hi) ==
  IF lo > hi THEN Rgb(0, 0, 0)
  ELSE IF lo = hi THEN samples[lo]
  ELSE LET mid == (lo + hi) \div 2
           a == SumRgb(samples, lo, mid)
           b == SumRgb(samples, mid + 1, hi)
       IN Rgb(a.r + b.r, a.g + b.g, a.b + b.b)

\* Step A: bgHsl.  rndA is the draw of useAverageBg, rndB the draw that
\* picks a random background sample.
BgHsl(bgS, rndA, rndB) ==
  IF Len(bgS) = 0 THEN Hsl(0, 0, (5 * Unit) \div 100)
  ELSE IF 2 * rndA > Unit
       THEN LET avg == SumRgb(bgS, 1, Len(bgS))
                n == Len(bgS)
            IN rgbToHsl(Rgb(avg.r \div n, avg.g \div n, avg.b \div n))
       ELSE rgbToHsl(bgS[Floor(rndB * Len(bgS)) + 1])

\* A walk that keeps every colour of the list (what DistinctWalk is compared
\* with).
KeepAll(rest, kept) == kept \o rest

\* The greedy walk that keeps up to 12 colours whose squared distance to
\* every kept colour exceeds 900.
RECURSIVE DistinctWalk(_, _)
DistinctWalk(rest, kept) ==
  IF rest = <<>> \/ Len(kept) >= 12 THEN kept
  ELSE IF \A k \in 1 .. Len(kept) :
            colorDistSq(kept[k].color, Head(rest).color) > 900
       THEN DistinctWalk(Tail(rest), Append(kept, Head(rest)))
       ELSE DistinctWalk(Tail(rest), kept)

\* distinctFg, with its two fallbacks.
distinctFg(fgSorted) ==
  LET walked == DistinctWalk(fgSorted, <<>>)
      first == IF walked = <<>> /\ fgSorted # <<>> THEN <<fgSorted[1]>>
               ELSE walked
  IN IF first = <<>>
     THEN <<[color |-> RgbOfInts(128, 128, 128), count |-> 100,
             hsl |-> Hsl(0, 0, Unit \div 2), bucket |-> <<12, 12, 12>>]>>
     ELSE first

\* The Fisher-Yates shuffle: for i from length-1 down to 1, swap entry i
\* with entry floor(Math.random() * (i + 1)).  k numbers the draw.
RECURSIVE Shuffle(_, _, _, _)
Shuffle(arr, i, stream, k) ==
  IF i <= 0 THEN arr
  ELSE LET j == Floor(Rand(stream, k) * (i + 1))
       IN Shuffle([arr EXCEPT ![i + 1] = arr[j + 1], ![j + 1] = arr[i + 1]],
                  i - 1, stream, k + 1)

\* The % of JavaScript: the sign of the dividend.
JsMod(a, m) == IF a >= 0 THEN a % m ELSE 0 - ((0 - a) % m)

\* jitter and jitterHue; rnd is the draw each makes.
jitter(v, amt, rnd) == Min(Unit, Max(0, v + (Mul(rnd, 2 * amt) - amt)))
jitterHue(h, amt, rnd) == JsMod(h + (Mul(rnd, 2 * amt) - amt) + Unit, Unit)

\* distinctFg.reduce((p, c) => c.hsl.l > p.hsl.l ? c : p, distinctFg[0])
RECURSIVE Brightest(_, _, _)
Brightest(list, k, best) ==
  IF k > Len(list) THEN best
  ELSE Brightest(list, k + 1,
                 IF list[k].hsl.l > best.hsl.l THEN list[k] ELSE best)

\* distinctFg.find(c => Math.abs(c.hsl.h - targetShadowH) < 0.25), or <<>>.
RECURSIVE FindNear(_, _, _)
FindNear(list, k, target) ==
  IF k > Len(list) THEN <<>>
  ELSE IF 4 * Abs(list[k].hsl.h - target) < Unit THEN <<list[k]>>
       ELSE FindNear(list, k + 1, target)

\* The member of a one-element set.  {e(x) : x \in {v}} computes v once
\* and hands its value to e, as a const declaration does.
Only(S) == CHOOSE x \in S : TRUE

\* A test that never shifts the hue (what ForceShift is compared with).
NeverShift(distToComp) == FALSE

\* distToComp > 0.25 && distToComp < 0.75: the shadow hue is replaced.
ForceShift(distToComp) == 4 * distToComp > Unit /\ 4 * distToComp < 3 * Unit

\* Roles 1 to 6 from the shuffled candidates on: the HSL triple handed to
\* hslToRgb for each role.  kShuffle numbers the first draw of the shuffle.
PaletteRoles(stream, kShuffle, dFg, topCandidates, bgHsl) ==
  LET n == Len(topCandidates)
      Top(i) == IF i <= n THEN <<topCandidates[i]>> ELSE <<>>
      \* 1. midtone
      kMid == kShuffle + (n - 1)
      midtoneSrc == topCandidates[1]
      midtoneHsl ==
        Hsl(jitterHue(midtoneSrc.hsl.h, (5 * Unit) \div 100, Rand(stream, kMid)),
            jitter(midtoneSrc.hsl.s, Unit \div 10, Rand(stream, kMid + 1)),
            Max((4 * Unit) \div 10,
                Min((6 * Unit) \div 10,
                    jitter(midtoneSrc.hsl.l, Unit \div 10,
                           Rand(stream, kMid + 2)))))
      \* 2. highlight
      kHi == kMid + 3
      highlightSrc ==
        IF 2 * Rand(stream, kHi) > Unit THEN Brightest(dFg, 1, dFg[1])
        ELSE IF Top(2) # <<>> THEN Top(2)[1] ELSE midtoneSrc
      highlightHsl ==
        Hsl(jitterHue(highlightSrc.hsl.h, (5 * Unit) \div 100,
                      Rand(stream, kHi + 1)),
            jitter(highlightSrc.hsl.s, Unit \div 10, Rand(stream, kHi + 2)),
            Max((8 * Unit) \div 10,
                jitter(highlightSrc.hsl.l, Unit \div 10, Rand(stream, kHi + 3))
                + Unit \div 10))
      \* 3. shadow
      kSh == kHi + 4
      midH == midtoneSrc.hsl.h
      targetShadowH == JsMod(midH + Unit \div 2, Unit)
      found == FindNear(dFg, 1, targetShadowH)
      shadowSrc == IF found # <<>> THEN found[1]
                   ELSE IF Top(3) # <<>> THEN Top(3)[1] ELSE topCandidates[1]
      distToComp == Abs(shadowSrc.hsl.h - targetShadowH)
      forced == ForceShift(distToComp)
      finalShadowH ==
        IF forced
        THEN targetShadowH
             + (Mul(Rand(stream, kSh), Unit \div 10) - (5 * Unit) \div 100)
        ELSE shadowSrc.hsl.h
      kShH == IF forced THEN kSh + 1 ELSE kSh
      shadowHsl ==
        Hsl(jitterHue(finalShadowH, (8 * Unit) \div 100, Rand(stream, kShH)),
            Max((6 * Unit) \div 10,
                jitter(shadowSrc.hsl.s, Unit \div 10, Rand(stream, kShH + 1))),
            Max((5 * Unit) \div 100,
                Min((25 * Unit) \div 100, shadowSrc.hsl.l - Unit \div 10)))
      \* 4. features
      kFe == kShH + 2
      featuresSrc == IF Top(4) # <<>> THEN Top(4)[1] ELSE dFg[Len(dFg)]
      featuresHsl ==
        Hsl(jitterHue(featuresSrc.hsl.h, (5 * Unit) \div 100, Rand(stream, kFe)),
            jitter(featuresSrc.hsl.s, Unit \div 10, Rand(stream, kFe + 1)),
            jitter(featuresSrc.hsl.l, Unit \div 10, Rand(stream, kFe + 2)))
      \* 5. details
      kPop == kFe + 3
      complementary == 2 * Rand(stream, kPop) > Unit
      detailsH == IF complementary THEN JsMod(midH + Unit \div 2, Unit)
                  ELSE JsMod(midH + (33 * Unit) \div 100, Unit)
      detailsHsl ==
        Hsl(jitterHue(detailsH, (5 * Unit) \div 100, Rand(stream, kPop + 1)),
            Unit,
            IF complementary THEN (8 * Unit) \div 10 ELSE (6 * Unit) \div 10)
      \* 6. background
      kBg == kPop + 2
      bgTint == IF 5 * Rand(stream, kBg) > 4 * Unit THEN (15 * Unit) \div 100
                ELSE 0
      backgroundHsl ==
        Hsl(jitterHue(bgHsl.h, (5 * Unit) \div 100, Rand(stream, kBg + 1)),
            Mul(bgHsl.s, Unit \div 2 + Rand(stream, kBg + 2)),
            Min((25 * Unit) \div 100,
                Mul(bgHsl.l,
                    (8 * Unit) \div 10
                    + Mul(Rand(stream, kBg + 3), (4 * Unit) \div 10))
                + bgTint))
  IN [targetShadowH |-> targetShadowH, finalShadowH |-> finalShadowH,
      hsl |-> <<shadowHsl, midtoneHsl, highlightHsl, featuresHsl, detailsHsl,
                backgroundHsl>>]

\* The six hslToRgb results and the list the promise is resolved with.
PaletteResolve(bgColors, fgSorted, dFg, roles) ==
  Only({[bgColors |-> bgColors, fgSorted |-> fgSorted, distinctFg |-> dFg,
         targetShadowH |-> roles.targetShadowH,
         finalShadowH |-> roles.finalShadowH,
         hsl |-> roles.hsl, rgb |-> rgb,
         value |-> <<rgbToHex(rgb[1]), rgbToHex(rgb[2]), rgbToHex(rgb[3]),
                     rgbToHex(rgb[4]), rgbToHex(rgb[5]), rgbToHex(rgb[6])>>] :
        rgb \in {<<hslToRgb(roles.hsl[1]), hslToRgb(roles.hsl[2]),
                   hslToRgb(roles.hsl[3]), hslToRgb(roles.hsl[4]),
                   hslToRgb(roles.hsl[5]), hslToRgb(roles.hsl[6])>>}})

\* Step A (bgHsl), the shuffle of the top candidates, and the roles.
PaletteSelect(stream, bgColors, bgS, fgSorted, dFg) ==
  LET pickBg == Len(bgS) > 0 /\ ~(2 * Rand(stream, 1) > Unit)
      kShuffle == IF pickBg THEN 3 ELSE 2
      n == Min(Len(dFg), 6)
  IN Only({PaletteResolve(bgColors, fgSorted, dFg, roles) :
           roles \in {Only({PaletteRoles(stream, kShuffle, dFg, top, bgHsl) :
                        top \in {Shuffle(SubSeq(dFg, 1, n), n - 1, stream,
                                         kShuffle)},
                        bgHsl \in {BgHsl(bgS, Rand(stream, 1),
                                         Rand(stream, 2))}})}})

\* Step 2 (the pools) and step B (the sort and the distinct walk).
PalettePools(data, stream, bgColors) ==
  Only({Only({PaletteSelect(stream, bgColors, bgS, fgSorted, dFg) :
                dFg \in {distinctFg(fgSorted)}}) :
        bgS \in {bgSamples(data, bgColors)},
        fgSorted \in {SortByCount(<<>>, fgSamples(data, bgColors))}})

\* The onload handler of extractColorsFromImage once it holds a 2D context
\* and the size x size buffer: the six HSL triples handed to hslToRgb, the
\* six RGB triples handed to rgbToHex and the resolved list, in the order
\* shadow, midtone, highlight, features, details, background.
extractColorsFromImage(data, stream) ==
  Only({PalettePools(data, stream, bgColors) :
        bgColors \in {analyzeImageSegmentation(Size, Size, 1, data)}})

\* ------------------------------------------------------------ inputs
\* Pixel values of the canvas buffers.  A fully transparent pixel reads
\* back as (0, 0, 0, 0).
Clear == Px(0, 0, 0, 0)
Black == Px(0, 0, 0, 255)
Dark == Px(30, 30, 30, 255)
White == Px(255, 255, 255, 255)
Faint == Px(255, 255, 255, 30)
Blue == Px(0, 0, 255, 255)
Red == Px(255, 0, 0, 255)
Gray == Px(128, 128, 128, 255)
Veil == Px(10, 200, 10, 100)

\* Outcomes of Math.random(), which lies in [0, 1).
Draws == {0, Unit \div 2, Unit - 1}

\* Streams of draws of period p.
Streams(p) == [1 .. p -> Draws]

\* Natural sizes (img.width, img.height) of the loaded images: the canvas
\* height img.height / img.width * Width is an integer for some and has a
\* fractional part for others.  All give a canvas of at least one row.
ImageSizes == {<<1, 1>>, <<16, 9>>, <<16, 11>>}

\* canvas.height = height and getImageData(0, 0, width, height) both
\* truncate a fractional height: the rows of the buffer.
Rows(imgWidth, imgHeight) == (imgHeight * Width) \div imgWidth

\* The canvas buffer of processImageToPoints for an image that is clear
\* but for three pixels: (0, 0), its neighbour (1, 0), and (4, 4) or, in a
\* buffer of fewer than five rows, (4, rows - 1).
SpotIndex(k, rows) ==
  IF k = 1 THEN 0
  ELSE IF k = 2 THEN 1
  ELSE (IF rows > 4 THEN 4 ELSE rows - 1) * Width + 4

PointsImage(size, spots) ==
  LET rows == Rows(size[1], size[2])
  IN [width |-> size[1], height |-> size[2],
      pixels |-> [i \in 1 .. rows * Width |->
                    IF \E k \in 1 .. 3 : SpotIndex(k, rows) = i - 1
                    THEN spots[CHOOSE k \in 1 .. 3 : SpotIndex(k, rows) = i - 1]
                    ELSE Clear]]

SpotValues ==
  {<<a, b, c>> : a \in {Clear, Black, White, Faint},
                 b \in {Clear, Black, Dark, White},
                 c \in {Clear, Black, White}}

PointsImages ==
  {PointsImage(size, spots) : size \in ImageSizes, spots \in SpotValues}

\* The counts and scales processImageToPoints is called with.
Counts == 1 .. MaxCount
Scales == {Unit \div 10, Unit}

\* The size x size canvas buffer of extractColorsFromImage for an image
\* with a border of one pixel value around a central square whose pixels
\* repeat the list centre in scan order.
InCentre(x, y) ==
  LET q == Size \div 4
  IN x >= q /\ x < Size - q /\ y >= q /\ y < Size - q

PaletteData(border, centre) ==
  LET q == Size \div 4
  IN [i \in 1 .. Size * Size |->
        LET x == (i - 1) % Size
            y == (i - 1) \div Size
        IN IF InCentre(x, y)
           THEN centre[(((y - q) * (Size - 2 * q) + (x - q)) % Len(centre)) + 1]
           ELSE border]

\* Fourteen opaque colours, every two more than 30 apart.
Ramp ==
  [k \in 1 .. 14 |-> Px((k * 97) % 256, (k * 151) % 256, (k * 41) % 256, 255)]

PaletteBorders == {Clear, Blue, Black, White, Veil}
PaletteCentres ==
  {<<Clear>>, <<White>>, <<Blue>>, <<Red, Gray>>,
   <<White, Px(240, 240, 240, 255), Red, Veil>>, Ramp}

PaletteImages ==
  {[width |-> Size, height |-> Size, pixels |-> PaletteData(b, c)] :
     b \in PaletteBorders, c \in PaletteCentres}

\* Channel values and strings the colour utilities are applied to.
Bytes == {0, 1, 15, 16, 128, 255}
HexAlphabet == {"#", "0", "a", "F", "g"}
HexStrings == UNION {[1 .. n -> HexAlphabet] : n \in 0 .. MaxHexLen}

\* ------------------------------------------------------------ state
\* calls[i]: invocation i of processImageToPoints or extractColorsFromImage.
\*   kind     "none" (not called yet), "points" or "colors"
\*   pc       "idle"; "pending" (img.src set, promise pending); "resolved"
\*            (a handler ran to its end); "threw" (onload raised an
\*            exception: the promise stays pending for ever)
\*   count, scale   the arguments of processImageToPoints
\*   fired    the image event delivered: "none", "load" or "error"
\*   ctx      canvas.getContext('2d') returned a context
\*   img, stream    what the onload handler read: the image with its canvas
\*            buffer, and the outcomes of Math.random()
\*   trace    what the onload handler computed (locals of the closure)
\*   result   the value the promise was resolved with
\*   resolves the number of calls of resolve()
\* probe: the last application of a colour utility, outside any invocation.
VARIABLES calls, probe

vars == <<calls, probe>>

Ids == {1, 2}

NoImage == [width |-> 0, height |-> 0, pixels |-> <<>>]
NoCall ==
  [kind |-> "none", pc |-> "idle", count |-> 0, scale |-> 0,
   fired |-> "none", ctx |-> FALSE, img |-> NoImage, stream |-> <<>>,
   trace |-> <<>>, result |-> <<>>, resolves |-> 0]
NoProbe == [fn |-> "none", arg |-> <<>>, hex |-> <<>>, out |-> <<>>]

Init ==
  /\ calls = [i \in Ids |-> NoCall]
  /\ probe = NoProbe

\* const img = new Image(); ...; img.src = imageUrl  (processImageToPoints)
CallProcessImageToPoints(i, count, scale) ==
  /\ calls[i].pc = "idle"
  /\ calls' = [calls EXCEPT ![i] =
       [NoCall EXCEPT !.kind = "points", !.pc = "pending",
                      !.count = count, !.scale = scale]]
  /\ UNCHANGED probe

\* const img = new Image(); ...; img.src = imageUrl  (extractColorsFromImage)
CallExtractColorsFromImage(i) ==
  /\ calls[i].pc = "idle"
  /\ calls' = [calls EXCEPT ![i] =
       [NoCall EXCEPT !.kind = "colors", !.pc = "pending"]]
  /\ UNCHANGED probe

\* A sphere of radius one whatever the scale (what SphereFallback is
\* compared with).
SphereOfUnitRadius(count, scale) == generateSphere(count, Unit)

\* What the fallback of processImageToPoints resolves with.
SphereFallback(count, scale) == generateSphere(count, scale)

\* img.onerror of processImageToPoints
PointsOnError(i) ==
  /\ calls[i].kind = "points" /\ calls[i].pc = "pending"
  /\ calls' = [calls EXCEPT ![i] =
       [calls[i] EXCEPT !.pc = "resolved", !.fired = "error",
          !.result = SphereFallback(calls[i].count, calls[i].scale),
          !.resolves = calls[i].resolves + 1]]
  /\ UNCHANGED probe

\* img.onload of processImageToPoints with getContext('2d') null: the
\* handler returns before it reads the image.
PointsOnLoadNoContext(i) ==
  /\ calls[i].kind = "points" /\ calls[i].pc = "pending"
  /\ calls' = [calls EXCEPT ![i] =
       [calls[i] EXCEPT !.pc = "resolved", !.fired = "load",
          !.result = SphereFallback(calls[i].count, calls[i].scale),
          !.resolves = calls[i].resolves + 1]]
  /\ UNCHANGED probe

\* img.onload of processImageToPoints with a context
\* for an image of the set images and draws of the set streams.
PointsOnLoad(i, images, streams) ==
  /\ calls[i].kind = "points" /\ calls[i].pc = "pending"
  /\ \E img \in images, stream \in streams :
       \E out \in {processImageToPoints(img, calls[i].count, calls[i].scale,
                                         stream)} :
          calls' = [calls EXCEPT ![i] =
            IF out.threw
            THEN [calls[i] EXCEPT !.pc = "threw", !.fired = "load",
                    !.ctx = TRUE, !.img = img, !.stream = stream,
                    !.trace = out]
            ELSE [calls[i] EXCEPT !.pc = "resolved", !.fired = "load",
                    !.ctx = TRUE, !.img = img, !.stream = stream,
                    !.trace = out, !.result = out.value,
                    !.resolves = calls[i].resolves + 1]]
  /\ UNCHANGED probe

\* img.onerror of extractColorsFromImage
ColorsOnError(i) ==
  /\ calls[i].kind = "colors" /\ calls[i].pc = "pending"
  /\ calls' = [calls EXCEPT ![i] =
       [calls[i] EXCEPT !.pc = "resolved", !.fired = "error",
          !.result = <<>>, !.resolves = calls[i].resolves + 1]]
  /\ UNCHANGED probe

\* img.onload of extractColorsFromImage with getContext('2d') null
ColorsOnLoadNoContext(i) ==
  /\ calls[i].kind = "colors" /\ calls[i].pc = "pending"
  /\ calls' = [calls EXCEPT ![i] =
       [calls[i] EXCEPT !.pc = "resolved", !.fired = "load",
          !.result = <<>>, !.resolves = calls[i].resolves + 1]]
  /\ UNCHANGED probe

\* img.onload of extractColorsFromImage with a context: no statement of it
\* can throw, and it resolves as its last statement.
ColorsOnLoad(i, images, streams) ==
  /\ calls[i].kind = "colors" /\ calls[i].pc = "pending"
  /\ \E img \in images, stream \in streams :
       \E out \in {extractColorsFromImage(img.pixels, stream)} :
          calls' = [calls EXCEPT ![i] =
            [calls[i] EXCEPT !.pc = "resolved", !.fired = "load",
               !.ctx = TRUE, !.img = img, !.stream = stream, !.trace = out,
               !.result = out.value, !.resolves = calls[i].resolves + 1]]
  /\ UNCHANGED probe

\* rgbToHex applied to three integer channels, and hexToRgb to its result.
ProbeRgbToHex ==
  /\ probe.fn = "none"
  /\ \E r \in Bytes, g \in Bytes, b \in Bytes :
       probe' = [fn |-> "rgbToHex", arg |-> <<r, g, b>>,
                 hex |-> rgbToHex(RgbOfInts(r, g, b)),
                 out |-> hexToRgb(rgbToHex(RgbOfInts(r, g, b)))]
  /\ UNCHANGED calls

\* hexToRgb applied to a string.
ProbeHexToRgb ==
  /\ probe.fn = "none"
  /\ \E hex \in HexStrings :
       probe' = [fn |-> "hexToRgb", arg |-> hex, hex |-> hex,
                 out |-> hexToRgb(hex)]
  /\ UNCHANGED calls

\* The points sampler alone: one invocation.
Next ==
  \/ \E count \in Counts, scale \in Scales :
       CallProcessImageToPoints(1, count, scale)
  \/ PointsOnError(1)
  \/ PointsOnLoadNoContext(1)
  \/ PointsOnLoad(1, PointsImages, Streams(2))

Spec == Init /\ [][Next]_vars

\* The palette extractor alone: one invocation.
NextColors ==
  \/ CallExtractColorsFromImage(1)
  \/ ColorsOnError(1)
  \/ ColorsOnLoadNoContext(1)
  \/ ColorsOnLoad(1, PaletteImages, Streams(3))

SpecColors == Init /\ [][NextColors]_vars

\* The colour utilities alone.
NextHex ==
  \/ ProbeRgbToHex
  \/ ProbeHexToRgb

SpecHex == Init /\ [][NextHex]_vars

\* Two invocations whose loads are pending together, their callbacks
\* delivered in any order.
PairPointsImages ==
  {PointsImage(<<1, 1>>, spots) :
     spots \in {<<Clear, Clear, Clear>>, <<White, Black, Clear>>}}
PairPaletteImages ==
  {[width |-> Size, height |-> Size, pixels |-> PaletteData(b, <<White>>)] :
     b \in {Clear, Blue}}
PairStreams == {<<0>>, <<Unit - 1, Unit \div 2>>}

NextPair ==
  \E i \in Ids :
    \/ \E count \in {1, 2} : CallProcessImageToPoints(i, count, Unit)
    \/ CallExtractColorsFromImage(i)
    \/ PointsOnError(i)
    \/ PointsOnLoadNoContext(i)
    \/ PointsOnLoad(i, PairPointsImages, PairStreams)
    \/ ColorsOnError(i)
    \/ ColorsOnLoadNoContext(i)
    \/ ColorsOnLoad(i, PairPaletteImages, PairStreams)

SpecPair == Init /\ [][NextPair]_vars

\* ------------------------------------------------------------ properties
\* Invocation i is a call of processImageToPoints whose image event came
\* without the handler getting a pixel buffer: onerror, or onload with no
\* 2D context.
PointsFailed(i) ==
  /\ calls[i].kind = "points"
  /\ \/ calls[i].fired = "error"
     \/ calls[i].fired = "load" /\ ~calls[i].ctx

\* Invocation i is a call of processImageToPoints whose onload handler ran
\* on a pixel buffer.
PointsLoaded(i) ==
  calls[i].kind = "points" /\ calls[i].fired = "load" /\ calls[i].ctx

\* C1: when the image load signals an error or the 2D context is
\* unavailable, processImageToPoints resolves (once) with exactly
\* generateSphere(count, scale): positions of length count*3 and no
\* brightness, edgeStrength or isBackground array.
C1_FallbackIsSphere ==
  \A i \in Ids :
    PointsFailed(i) =>
      /\ calls[i].pc = "resolved"
      /\ calls[i].resolves = 1
      /\ calls[i].result = generateSphere(calls[i].count, calls[i].scale)
      /\ DOMAIN calls[i].result = {"positions"}
      /\ Len(calls[i].result.positions) = calls[i].count * 3
      /\ \A k \in 1 .. calls[i].count * 3 :
           calls[i].result.positions[k][4] = calls[i].scale

\* A load error answered with the sphere of the largest count at the small
\* scale.
C1_Witness ==
  /\ calls[1].kind = "points"
  /\ calls[1].fired = "error"
  /\ calls[1].pc = "resolved"
  /\ calls[1].count = MaxCount
  /\ calls[1].scale = Unit \div 10
  /\ Len(calls[1].result.positions) = 3 * MaxCount

\* C2: for every loaded pixel buffer and every count > 0 the result has
\* positions of length count*3 and brightness, edgeStrength and
\* isBackground of length count, each entry written from a selected
\* candidate, whatever the number of pixels with alpha > 20.
C2_ArrayLengths ==
  \A i \in Ids :
    PointsLoaded(i) =>
      /\ calls[i].pc = "resolved"
      /\ Len(calls[i].trace.selected) = calls[i].count
      /\ Len(calls[i].result.positions) = calls[i].count * 3
      /\ Len(calls[i].result.brightness) = calls[i].count
      /\ Len(calls[i].result.edgeStrength) = calls[i].count
      /\ Len(calls[i].result.isBackground) = calls[i].count

\* C3: every invocation of processImageToPoints and of
\* extractColorsFromImage whose image event was delivered has resolved its
\* promise exactly once; for every loaded buffer, a fully transparent one
\* included, no exception escapes the load handler.
C3_HandlerResolvesOnce ==
  \A i \in Ids :
    calls[i].fired # "none" =>
      /\ calls[i].pc # "threw"
      /\ calls[i].pc = "resolved"
      /\ calls[i].resolves = 1

\* Invocation i is a call of extractColorsFromImage whose onload handler
\* ran on a pixel buffer.
ColorsLoaded(i) ==
  calls[i].kind = "colors" /\ calls[i].fired = "load" /\ calls[i].ctx

\* ^#[0-9a-f]{6}$
LowerHexDigits ==
  {"0", "1", "2", "3", "4", "5", "6", "7", "8", "9",
   "a", "b", "c", "d", "e", "f"}
IsLowerHexColour(str) ==
  /\ Len(str) = 7
  /\ str[1] = "#"
  /\ \A k \in 2 .. 7 : str[k] \in LowerHexDigits

\* C4: for every decoded image and every outcome of the random draws,
\* extractColorsFromImage resolves to exactly 6 strings matching
\* ^#[0-9a-f]{6}$; on a load error or a missing context it resolves to the
\* empty list.
C4_SixHexStrings ==
  \A i \in Ids :
    calls[i].kind = "colors" /\ calls[i].pc = "resolved" =>
      IF ColorsLoaded(i)
      THEN /\ Len(calls[i].result) = 6
           /\ \A k \in 1 .. 6 : IsLowerHexColour(calls[i].result[k])
      ELSE calls[i].result = <<>>

\* C5: for each of the six palette roles and every outcome of the random
\* draws, the h, s, l handed to hslToRgb lie in [0, 1] and the r, g, b
\* handed to rgbToHex lie in [0, 255].
C5_ChannelsInRange ==
  \A i \in Ids :
    ColorsLoaded(i) =>
      \A k \in 1 .. 6 :
        /\ calls[i].trace.hsl[k].h >= 0 /\ calls[i].trace.hsl[k].h <= Unit
        /\ calls[i].trace.hsl[k].s >= 0 /\ calls[i].trace.hsl[k].s <= Unit
        /\ calls[i].trace.hsl[k].l >= 0 /\ calls[i].trace.hsl[k].l <= Unit
        /\ calls[i].trace.rgb[k].r >= 0 /\ calls[i].trace.rgb[k].r <= 255 * Unit
        /\ calls[i].trace.rgb[k].g >= 0 /\ calls[i].trace.rgb[k].g <= 255 * Unit
        /\ calls[i].trace.rgb[k].b >= 0 /\ calls[i].trace.rgb[k].b <= 255 * Unit

\* What invocation i resolves with as a function of its own arguments,
\* pixel buffer and draws alone.
OwnResult(i) ==
  IF calls[i].kind = "points"
  THEN IF PointsLoaded(i)
       THEN processImageToPoints(calls[i].img, calls[i].count, calls[i].scale,
                                 calls[i].stream).value
       ELSE generateSphere(calls[i].count, calls[i].scale)
  ELSE IF ColorsLoaded(i)
       THEN extractColorsFromImage(calls[i].img.pixels, calls[i].stream).value
       ELSE <<>>

\* C6: two invocations pending at the same time do not interact: once the
\* callbacks of both have run, in either order, both have resolved, each
\* with the result its own pixel buffer, arguments and draws determine.
C6_BothResolveIndependently ==
  \A i \in Ids : \A j \in Ids \ {i} :
    calls[i].fired # "none" /\ calls[j].fired # "none" =>
      /\ calls[i].pc = "resolved"
      /\ calls[j].pc = "resolved"
      /\ calls[i].result = OwnResult(i)
      /\ calls[j].result = OwnResult(j)

\* C7: for all integer RGB triples with each channel in [0, 255],
\* hexToRgb(rgbToHex(rgb)) equals rgb, and rgbToHex(rgb) is "#" followed by
\* exactly six hex digits (zero-padded).
C7_HexRoundTrip ==
  probe.fn = "rgbToHex" =>
    /\ probe.out = Rgb(probe.arg[1] * Unit, probe.arg[2] * Unit,
                       probe.arg[3] * Unit)
    /\ IsLowerHexColour(probe.hex)

\* A triple whose first channel needs both padding digits.
C7_Witness ==
  /\ probe.fn = "rgbToHex"
  /\ probe.arg = <<0, 15, 255>>
  /\ probe.hex = <<"#", "0", "0", "0", "f", "f", "f">>
  /\ probe.out = Rgb(0, 15 * Unit, 255 * Unit)

\* Exactly six hex digits (either case) with an optional leading "#".
UpperHexDigits ==
  {"0", "1", "2", "3", "4", "5", "6", "7", "8", "9",
   "A", "B", "C", "D", "E", "F"}
SixHexDigits(str) ==
  LET body == IF Len(str) > 0 /\ str[1] = "#" THEN SubSeq(str, 2, Len(str))
              ELSE str
  IN IF Len(body) = 6
        /\ \A k \in 1 .. 6 : body[k] \in LowerHexDigits \cup UpperHexDigits
     THEN body ELSE <<>>
NibbleValue(ch) ==
  CHOOSE v \in 0 .. 15 :
    HexDigitsLower[v + 1] = ch \/ HexDigitsUpper[v + 1] = ch

\* C8: for every string that is not exactly six hex digits with an
\* optional leading "#", hexToRgb returns black (0, 0, 0); for every string
\* of that form it returns the three parsed channel values.
C8_HexToRgbTotal ==
  probe.fn = "hexToRgb" =>
    LET d == SixHexDigits(probe.arg)
    IN IF d = <<>>
       THEN probe.out = Rgb(0, 0, 0)
       ELSE probe.out =
              Rgb((16 * NibbleValue(d[1]) + NibbleValue(d[2])) * Unit,
                  (16 * NibbleValue(d[3]) + NibbleValue(d[4])) * Unit,
                  (16 * NibbleValue(d[5]) + NibbleValue(d[6])) * Unit)

\* Seven hex digits, one too many: answered with black.
C8_Witness ==
  /\ probe.fn = "hexToRgb"
  /\ probe.arg = <<"a", "F", "0", "0", "a", "F", "a">>
  /\ probe.out = Rgb(0, 0, 0)

\* The stride-4 pixels of the buffer of invocation i with alpha >= 50.
SampledPixels(i) ==
  LET rows == Len(calls[i].img.pixels) \div Width
  IN {xy \in (0 .. Width - 1) \X (0 .. rows - 1) :
        /\ xy[1] % 4 = 0
        /\ xy[2] % 4 = 0
        /\ calls[i].img.pixels[xy[2] * Width + xy[1] + 1].a >= 50}
SampledKey(i, xy) ==
  LET p == calls[i].img.pixels[xy[2] * Width + xy[1] + 1]
  IN <<p.r \div 16, p.g \div 16, p.b \div 16>>

\* C9: a colour key is in the background set if and only if, counting only
\* the pixels at coordinates that are multiples of 4 in both axes with
\* alpha >= 50, those with that key lying in the outer zone are more than
\* 0.4 of those with that key; a key with no such pixel is never in the set.
C9_BackgroundSet ==
  \A i \in Ids :
    PointsLoaded(i) =>
      LET smp == SampledPixels(i)
          hN == calls[i].img.height * Width
          hD == calls[i].img.width
          total(k) == Cardinality({xy \in smp : SampledKey(i, xy) = k})
          outer(k) == Cardinality({xy \in smp :
                        /\ SampledKey(i, xy) = k
                        /\ isOuterZone(xy[1], xy[2], Width, hN, hD)})
      IN calls[i].trace.bgColors =
           {k \in {SampledKey(i, xy) : xy \in smp} :
              10 * outer(k) > 4 * total(k)}

\* C10: a candidate is flagged background if and only if its colour key is
\* in the background set and its edge strength is below 0.5; no emitted
\* point with edgeStrength >= 0.5 has isBackground = 1, and every
\* isBackground entry is exactly 0 or 1.
C10_BackgroundFlag ==
  \A i \in Ids :
    PointsLoaded(i) =>
      /\ \A k \in 1 .. Len(calls[i].trace.candidates) :
           LET c == calls[i].trace.candidates[k]
           IN c.isBg <=>
                /\ <<c.r \div 16, c.g \div 16, c.b \div 16>>
                     \in calls[i].trace.bgColors
                /\ ~IsNaN(c.edgeStrength)
                /\ 2 * c.edgeStrength < Unit
      /\ calls[i].pc = "resolved" =>
           \A k \in 1 .. calls[i].count :
             /\ calls[i].result.isBackground[k] \in {0, Unit}
             /\ calls[i].result.isBackground[k] = Unit =>
                  /\ ~IsNaN(calls[i].result.edgeStrength[k])
                  /\ 2 * calls[i].result.edgeStrength[k] < Unit

\* A resolved call that emitted a point flagged background and whose
\* candidates hold a hard edge of a background colour, which is not flagged.
C10_Witness ==
  /\ PointsLoaded(1)
  /\ calls[1].pc = "resolved"
  /\ \E k \in 1 .. calls[1].count : calls[1].result.isBackground[k] = Unit
  /\ \E k \in 1 .. calls[1].count :
       /\ calls[1].result.isBackground[k] = 0
       /\ 2 * calls[1].result.edgeStrength[k] >= Unit
       /\ <<calls[1].trace.selected[k].r \div 16,
            calls[1].trace.selected[k].g \div 16,
            calls[1].trace.selected[k].b \div 16>> \in calls[1].trace.bgColors

\* The entry at index n + k of the selection of invocation i is a copy of
\* the entry at index k mod n, moved by at most reach in x and in y (strictly
\* less than reach when strict).
PaddedFrom(i, n, k, reach, strict) ==
  LET src == calls[i].trace.selected[(k % n) + 1]
      pad == calls[i].trace.selected[n + k + 1]
      near(d) == IF strict THEN Abs(d) < reach ELSE Abs(d) <= reach
  IN /\ pad.brightness = src.brightness
     /\ pad.edgeStrength = src.edgeStrength
     /\ pad.isBg = src.isBg
     /\ pad.r = src.r /\ pad.g = src.g /\ pad.b = src.b
     /\ near(pad.x - src.x)
     /\ near(pad.y - src.y)

\* The selection of invocation i, which had 1 <= n < count candidates, is
\* the n candidates followed by count - n padded entries.
PaddedSelection(i, strict) ==
  LET n == Len(calls[i].trace.candidates)
  IN PointsLoaded(i) /\ n >= 1 /\ n < calls[i].count =>
       /\ Len(calls[i].trace.selected) = calls[i].count
       /\ \A k \in 0 .. calls[i].count - n - 1 :
            PaddedFrom(i, n, k, Unit \div 2, strict)

\* C11 as amended: with 1 <= n < count candidates the selection is padded to
\* exactly count entries; the entry at index n + k is a copy of the entry at
\* index k mod n (an original candidate) with the same brightness, edge
\* strength and background flag, and with x and y each displaced by at most
\* 0.5 pixel (Math.random() - 0.5 lies in [-0.5, 0.5)).
C11_PaddingCopiesOriginals == \A i \in Ids : PaddedSelection(i, FALSE)

\* Two candidates padded to five entries: the third padded entry comes from
\* the first candidate again, and one entry is moved by exactly 0.5.
C11_Witness ==
  /\ PointsLoaded(1)
  /\ calls[1].pc = "resolved"
  /\ Len(calls[1].trace.candidates) = 2
  /\ calls[1].count = 5
  /\ calls[1].trace.selected[1].brightness
       # calls[1].trace.selected[2].brightness
  /\ calls[1].trace.selected[5].brightness
       = calls[1].trace.selected[1].brightness
  /\ \E k \in 3 .. 5 :
       calls[1].trace.selected[k].x
         = calls[1].trace.selected[((k - 3) % 2) + 1].x - Unit \div 2

\* C11 as stated: the same, with x and y each displaced by less than 0.5
\* pixel from the source.
C11_DisplacedLessThanHalf == \A i \in Ids : PaddedSelection(i, TRUE)

\* C12: on every successful run of extractColorsFromImage the lightness
\* used for the shadow lies in [0.05, 0.25] with saturation >= 0.6, the
\* lightness used for the midtone lies in [0.4, 0.6] and the lightness used
\* for the highlight is >= 0.8, so shadow < midtone < highlight in lightness.
C12_LightnessBands ==
  \A i \in Ids :
    ColorsLoaded(i) =>
      LET shadow == calls[i].trace.hsl[1]
          midtone == calls[i].trace.hsl[2]
          highlight == calls[i].trace.hsl[3]
      IN /\ 100 * shadow.l >= 5 * Unit /\ 100 * shadow.l <= 25 * Unit
         /\ 10 * shadow.s >= 6 * Unit
         /\ 10 * midtone.l >= 4 * Unit /\ 10 * midtone.l <= 6 * Unit
         /\ 10 * highlight.l >= 8 * Unit
         /\ shadow.l < midtone.l
         /\ midtone.l < highlight.l

\* A pool of one white candidate (lightness 1, saturation 0): the midtone
\* is forced down to 0.6, the shadow to 0.25 with saturation 0.6.
C12_Witness ==
  /\ ColorsLoaded(1)
  /\ Len(calls[1].trace.distinctFg) = 1
  /\ calls[1].trace.distinctFg[1].hsl.l = Unit
  /\ calls[1].trace.distinctFg[1].hsl.s = 0
  /\ 10 * calls[1].trace.hsl[2].l = 6 * Unit
  /\ 100 * calls[1].trace.hsl[1].l = 25 * Unit
  /\ 10 * calls[1].trace.hsl[1].s = 6 * Unit

\* The squared RGB distance of two pool entries, whose channels are bytes.
SquaredDistance(a, b) ==
  ((a.color.r - b.color.r) \div Unit) * ((a.color.r - b.color.r) \div Unit)
  + ((a.color.g - b.color.g) \div Unit) * ((a.color.g - b.color.g) \div Unit)
  + ((a.color.b - b.color.b) \div Unit) * ((a.color.b - b.color.b) \div Unit)

\* C13: the distinct foreground candidate list always holds between 1 and
\* 12 entries; built from a non-empty foreground pool, its entries are pool
\* entries in descending occurrence-count order and every two of them have
\* squared RGB distance strictly greater than 900; with an empty foreground
\* pool it holds exactly the neutral gray (128, 128, 128).
C13_DistinctCandidates ==
  \A i \in Ids :
    ColorsLoaded(i) =>
      LET d == calls[i].trace.distinctFg
          pool == calls[i].trace.fgSorted
      IN /\ Len(d) >= 1 /\ Len(d) <= 12
         /\ pool # <<>> =>
              /\ \A a \in 1 .. Len(d) :
                   \E b \in 1 .. Len(pool) : d[a] = pool[b]
              /\ \A a \in 1 .. Len(d) : \A b \in a + 1 .. Len(d) :
                   /\ d[a].count >= d[b].count
                   /\ SquaredDistance(d[a], d[b]) > 900
         /\ pool = <<>> =>
              /\ Len(d) = 1
              /\ d[1].color = Rgb(128 * Unit, 128 * Unit, 128 * Unit)

\* A pool of more than 12 colours, all far apart, of which 12 are kept.
C13_Witness ==
  /\ ColorsLoaded(1)
  /\ Len(calls[1].trace.fgSorted) > 12
  /\ Len(calls[1].trace.distinctFg) = 12
  /\ calls[1].trace.distinctFg[1].count > calls[1].trace.distinctFg[12].count

\* The distance of two hues on the hue circle (a may lie a little outside
\* [0, 1]).
CircularDistance(a, b) ==
  LET d == Abs(a - b) % Unit
  IN IF 2 * d > Unit THEN Unit - d ELSE d

\* C14: the shadow hue before its final +/-0.08 jitter lies within circular
\* hue distance 0.25 of the complementary target (midtone source hue + 0.5
\* mod 1): it is the hue of a candidate already within that distance, or
\* the target +/- 0.05.
C14_ShadowHueNearComplement ==
  \A i \in Ids :
    ColorsLoaded(i) =>
      LET target == calls[i].trace.targetShadowH
          final == calls[i].trace.finalShadowH
          d == calls[i].trace.distinctFg
      IN /\ 4 * CircularDistance(final, target) <= Unit
         /\ \/ \E k \in 1 .. Len(d) :
                 /\ d[k].hsl.h = final
                 /\ 4 * CircularDistance(d[k].hsl.h, target) <= Unit
            \/ 100 * Abs(final - target) <= 5 * Unit

\* No candidate lies within 0.25 of the target (the only hue of the pool is
\* half a turn away), and the shadow hue is the target moved by 0.05.
C14_Witness ==
  /\ ColorsLoaded(1)
  /\ \A k \in 1 .. Len(calls[1].trace.distinctFg) :
       2 * CircularDistance(calls[1].trace.distinctFg[k].hsl.h,
                            calls[1].trace.targetShadowH) = Unit
  /\ 100 * Abs(calls[1].trace.finalShadowH - calls[1].trace.targetShadowH)
       = 5 * Unit

\* The z coordinate written for point k of the result of invocation i.
ZOf(i, k) == calls[i].result.positions[3 * k]

\* Point a of invocation i lies strictly behind point b: z_a < z_b, which
\* is false when either is NaN.
StrictlyBehind(i, a, b) ==
  /\ ~IsNaN(ZOf(i, a))
  /\ ~IsNaN(ZOf(i, b))
  /\ ZOf(i, a) < ZOf(i, b)

\* C15: for every scale > 0 and every image, every point of the result
\* flagged background has a z coordinate strictly smaller than the z
\* coordinate of every point flagged foreground.
C15_BackgroundBehindForeground ==
  \A i \in Ids :
    PointsLoaded(i) /\ calls[i].pc = "resolved" =>
      \A a \in 1 .. calls[i].count : \A b \in 1 .. calls[i].count :
        /\ calls[i].result.isBackground[a] = Unit
        /\ calls[i].result.isBackground[b] = 0
        => StrictlyBehind(i, a, b)

====
